---- MODULE Spec2Model ----
(***************************************************************************)
(* A model of hello_tls.py: the cipher-suite enumeration driver            *)
(* (enumerate_ciphers_suites and its worker enumerate_subset, run by a     *)
(* ThreadPool) and the ServerHello / alert decoder                         *)
(* (ServerHello.from_packet).                                              *)
(***************************************************************************)
EXTENDS Integers, Sequences, FiniteSets, TLC

(***************************************************************************)
(* Bounds of the model.                                                    *)
(***************************************************************************)
\* Number of members of the CipherSuite enumeration the driver iterates
\* over (the first NumSuites members, in definition order).
NumSuites == 3
\* Largest value of a byte.
MaxByte == 255
\* Largest value of the max_workers argument.
MaxWorkers == 2
\* Largest number of answers of one run in which the server departs from
\* the behaviour of a server that supports the set supported.
MaxDeviations == 2
\* Largest length of a short server_name given to make_packet.
MaxNameLen == 2
\* Largest number of entries of allowed_protocols given to make_packet.
MaxProtocols == 2
\* Largest number of entries of allowed_cipher_suites given to make_packet.
MaxOffered == 2

(***************************************************************************)
(* Protocol constants.                                                     *)
(***************************************************************************)
\* class Protocol: the 2-byte wire codes, as 16-bit numbers.
SSLv3 == 768
TLS_1_0 == 769
TLS_1_1 == 770
TLS_1_2 == 771
TLS_1_3 == 772
Protocol == {SSLv3, TLS_1_0, TLS_1_1, TLS_1_2, TLS_1_3}

\* class CipherSuite: the wire codes (two bytes each) in definition order.
CipherSuiteValues ==
  << <<19, 1>>, <<19, 2>>, <<19, 3>>, <<19, 4>>, <<19, 5>>, <<0, 255>>,
     <<0, 10>>, <<0, 47>>, <<0, 53>>, <<0, 156>>, <<0, 157>>,
     <<192, 9>>, <<192, 10>>, <<192, 18>>, <<192, 19>>, <<192, 20>>,
     <<192, 43>>, <<192, 44>>, <<192, 47>>, <<192, 48>>,
     <<204, 168>>, <<204, 169>> >>

\* The members of CipherSuite the driver enumerates, named by their position
\* in the enumeration (member i is the one with index i-1 in Python).
CipherSuite == 1..NumSuites

\* class AlertLevel.
AlertLevel == {1, 2}

\* class AlertDescription.
handshake_failure == 40
protocol_version == 70
AlertDescription ==
  {0, 10, 20, 22, 40, 42, 43, 44, 45, 46, 47, 48, 49, 50, 51, 70, 71, 80,
   86, 90, 109, 110, 112, 113, 115, 116, 120}

(***************************************************************************)
(* State.                                                                  *)
(***************************************************************************)
VARIABLES
  max_workers,   \* argument of enumerate_ciphers_suites
  protocol,      \* argument of enumerate_ciphers_suites
  supported,     \* the server: the set S of suites it supports
  deviations,    \* the server: number of answers that departed from S so far
  remaining,     \* remaining[w]: remaining_cipher_suites of worker w
  accepted,      \* accepted_cipher_suites, shared by the workers
  appended,      \* appended[w]: the suites worker w appended at line 318
  pc,            \* pc[w]: position of worker w
  client_hello,  \* client_hello[w]: the ClientHello built in the last attempt
  server_hello,  \* server_hello[w]: the ServerHello returned by the last send
  attempts,      \* attempts[w]: number of ClientHellos sent by worker w
  response,      \* response[w]: how the last send of worker w ended
  served,        \* the suites the server named in its ServerHellos, in order
  outqueue,      \* the pool: task outcomes in order of completion
  number_left,   \* MapResult._number_left
  map_success,   \* MapResult._success
  map_value,     \* MapResult._value when a task failed
  outcome,       \* the call: "running", "returned" or "raised"
  result,        \* the returned sequence
  error,         \* the raised exception
  packet,        \* the bytes given to ServerHello.from_packet
  parsed,        \* the outcome of ServerHello.from_packet(packet)
  hello,         \* the ClientHello whose make_packet is called
  hello_packet   \* the outcome of hello.make_packet()

vars == <<max_workers, protocol, supported, deviations, remaining, accepted,
          appended, pc, client_hello, server_hello, attempts, response, served,
          outqueue, number_left, map_success, map_value, outcome, result,
          error, packet, parsed, hello, hello_packet>>

Workers == 1..max_workers

Range(s) == {s[i] : i \in 1..Len(s)}

\* Exceptions are records; worker names the task the exception was raised in
\* (0: raised by enumerate_ciphers_suites itself), alert is -1 when the
\* exception is not a ServerError.
NoError == [kind |-> "none", alert |-> -1, worker |-> 0]
ServerError(w, d) == [kind |-> "ServerError", alert |-> d, worker |-> w]
OtherError(w, k) == [kind |-> k, alert |-> -1, worker |-> w]

(***************************************************************************)
(* enumerate_ciphers_suites: the partition of the cipher suites.           *)
(***************************************************************************)
\* The members of CipherSuite in iteration order.
CipherSuiteSeq == [i \in 1..NumSuites |-> i]

\* The partition taken over the position counted from 1.
cipher_suite_part_FromOne(N, n) ==
  SelectSeq(CipherSuiteSeq, LAMBDA c : c % N = n)

\* The partition with one subset too many.
cipher_suite_part_ExtraPart(N, n) ==
  SelectSeq(CipherSuiteSeq, LAMBDA c : (c - 1) % (N + 1) = n)

\* [c for i, c in enumerate(CipherSuite) if i % max_workers == n]
cipher_suite_part(N, n) ==
  SelectSeq(CipherSuiteSeq, LAMBDA c : (c - 1) % N = n)

\* Every worker given the whole enumeration.
cipher_suite_parts_Whole(N) == [w \in 1..N |-> CipherSuiteSeq]

\* cipher_suite_parts, indexed by worker w = n + 1.
cipher_suite_parts(N) == [w \in 1..N |-> cipher_suite_part(N, w - 1)]

(***************************************************************************)
(* The server, as seen through ClientHello.send.                           *)
(***************************************************************************)
Hello(c) == [type |-> "ServerHello", cipher_suite |-> c, alert |-> -1]
Alert(d) == [type |-> "ServerError", cipher_suite |-> 0, alert |-> d]
Fault(k) == [type |-> k, cipher_suite |-> 0, alert |-> -1]

\* Alerts the server may answer with.
ReplyAlerts == {handshake_failure, protocol_version}
\* Exceptions of send that are not a ServerError: the empty response
\* (ValueError) and the transport failures (OSError).
ReplyFaults == {"ValueError", "OSError"}

\* The answers of a server that supports the set supported: a ServerHello
\* naming one suite of the offered ones it supports, handshake_failure when
\* there is none.
ConformingReplies(offered) ==
  IF offered \cap supported # {}
    THEN {Hello(c) : c \in offered \cap supported}
    ELSE {Alert(handshake_failure)}

\* Every outcome of send.
AllReplies ==
  {Hello(c) : c \in CipherSuite}
    \cup {Alert(d) : d \in ReplyAlerts}
    \cup {Fault(k) : k \in ReplyFaults}

\* What send can produce for a ClientHello offering the suites of offered.
ServerReplies(offered) ==
  IF deviations < MaxDeviations
    THEN AllReplies
    ELSE ConformingReplies(offered)

\* The count of departures after the answer r to offered.
Deviated(offered, r) ==
  IF r \in ConformingReplies(offered) THEN deviations ELSE deviations + 1

(***************************************************************************)
(* list.remove: the list without the first occurrence of x.                *)
(***************************************************************************)
FirstIndex(s, x) == CHOOSE i \in 1..Len(s) :
                      s[i] = x /\ \A j \in 1..(i - 1) : s[j] # x
\* A removal that drops the first element, whatever x is.
ListRemove_First(s, x) == Tail(s)

\* A removal that drops the last element instead.
ListRemove_DropsLast(s, x) == SubSeq(s, 1, Len(s) - 1)

ListRemove(s, x) ==
  LET k == FirstIndex(s, x)
  IN  [i \in 1..(Len(s) - 1) |-> IF i < k THEN s[i] ELSE s[i + 1]]

(***************************************************************************)
(* The pool: a task that ends puts its outcome on the result queue, the    *)
(* result handler passes the outcomes to MapResult._set in queue order.    *)
(***************************************************************************)
TaskDone(w) == [worker |-> w, success |-> TRUE, value |-> NoError]
TaskFailed(w, e) == [worker |-> w, success |-> FALSE, value |-> e]

\* A _set that stores every exception.
MapSetValue_KeepsLast(ok, val, item) ==
  IF ~item.success THEN item.value ELSE val

\* MapResult._set keeps the first exception only.
MapSetValue(ok, val, item) ==
  IF ~item.success /\ ok THEN item.value ELSE val

Running(w) == pc[w] = "RUNNING"

(***************************************************************************)
(* Byte codec primitives.  Bytes are numbers in 0..MaxByte, byte strings   *)
(* are sequences of bytes.                                                 *)
(***************************************************************************)
to_uint8(n) == <<n % 256>>
to_uint16(n) == <<(n \div 256) % 256, n % 256>>

Min(a, b) == IF a < b THEN a ELSE b

\* The Python slice b[lo:hi], positions counted from 0.
Slice(b, lo, hi) == SubSeq(b, lo + 1, Min(hi, Len(b)))

\* Protocol(value): the member with that wire code; the call raises
\* ValueError when there is none.
IsProtocol(b) == \E q \in Protocol : to_uint16(q) = b
ProtocolOf(b) == CHOOSE q \in Protocol : to_uint16(q) = b

\* CipherSuite(value): the position of the member with that wire code; the
\* call raises ValueError when there is none.
IsCipherSuite(b) == \E i \in 1..Len(CipherSuiteValues) : CipherSuiteValues[i] = b
CipherSuiteOf(b) == CHOOSE i \in 1..Len(CipherSuiteValues) :
                      CipherSuiteValues[i] = b

(***************************************************************************)
(* ServerHello.from_packet.                                                *)
(***************************************************************************)
\* The outcomes: a returned ServerHello, or the exception raised.
NotParsed ==
  [status |-> "none", protocol |-> 0, cipher_suite |-> 0, level |-> 0,
   alert |-> -1]
Raised(kind) ==
  [status |-> kind, protocol |-> 0, cipher_suite |-> 0, level |-> 0,
   alert |-> -1]
RaisedServerError(p, l, a) ==
  [status |-> "ServerError", protocol |-> p, cipher_suite |-> 0,
   level |-> l, alert |-> a]
ReturnedServerHello(p, c) ==
  [status |-> "ServerHello", protocol |-> p, cipher_suite |-> c,
   level |-> 0, alert |-> -1]

\* struct.calcsize("!BHHB3sH32sB")
begin_length == 44

\* The alert record read with level and description exchanged.
from_alert_packet_Swapped(pkt) ==
  IF Len(Slice(pkt, 0, 5)) # 5 THEN Raised("struct.error")
  ELSE IF Len(Slice(pkt, 5, 7)) # 2 THEN Raised("struct.error")
  ELSE LET legacy_record_version == pkt[2] * 256 + pkt[3]
           alert_level_id == pkt[7]
           alert_description_id == pkt[6]
       IN  IF ~IsProtocol(to_uint16(legacy_record_version))
             THEN Raised("ValueError")
           ELSE IF alert_level_id \notin AlertLevel
             THEN Raised("ValueError")
           ELSE IF alert_description_id \notin AlertDescription
             THEN Raised("ValueError")
           ELSE RaisedServerError(
                  ProtocolOf(to_uint16(legacy_record_version)),
                  alert_level_id, alert_description_id)

\* Lines 104-107: the alert record.
from_alert_packet(pkt) ==
  IF Len(Slice(pkt, 0, 5)) # 5 THEN Raised("struct.error")
  ELSE IF Len(Slice(pkt, 5, 7)) # 2 THEN Raised("struct.error")
  ELSE LET legacy_record_version == pkt[2] * 256 + pkt[3]
           alert_level_id == pkt[6]
           alert_description_id == pkt[7]
       IN  IF ~IsProtocol(to_uint16(legacy_record_version))
             THEN Raised("ValueError")
           ELSE IF alert_level_id \notin AlertLevel
             THEN Raised("ValueError")
           ELSE IF alert_description_id \notin AlertDescription
             THEN Raised("ValueError")
           ELSE RaisedServerError(
                  ProtocolOf(to_uint16(legacy_record_version)),
                  alert_level_id, alert_description_id)

\* The handshake record with any session id of at most 32 bytes let through.
from_handshake_packet_AnySid(pkt) ==
  IF pkt[1] # 22 THEN Raised("AssertionError")
  ELSE IF Len(Slice(pkt, 0, begin_length)) # begin_length
    THEN Raised("struct.error")
  ELSE LET record_type == pkt[1]
           legacy_record_version == pkt[2] * 256 + pkt[3]
           handshake_type == pkt[6]
           server_version_int == pkt[10] * 256 + pkt[11]
           session_id_length == pkt[44]
           cipher_suite_start == begin_length + session_id_length
           cipher_suite_id ==
             Slice(pkt, cipher_suite_start, cipher_suite_start + 2)
       IN  IF record_type # 22 THEN Raised("AssertionError")
           ELSE IF legacy_record_version \notin {769, 770, 771}
             THEN Raised("AssertionError")
           ELSE IF handshake_type # 2 THEN Raised("AssertionError")
           ELSE IF server_version_int \notin {769, 770, 771}
             THEN Raised("AssertionError")
           ELSE IF session_id_length > 32
             THEN Raised("AssertionError")
           ELSE IF ~IsProtocol(to_uint16(server_version_int))
             THEN Raised("ValueError")
           ELSE IF ~IsCipherSuite(cipher_suite_id)
             THEN Raised("ValueError")
           ELSE ReturnedServerHello(
                  ProtocolOf(to_uint16(server_version_int)),
                  CipherSuiteOf(cipher_suite_id))

\* The handshake record with server_version left unchecked.
from_handshake_packet_AnyVersion(pkt) ==
  IF pkt[1] # 22 THEN Raised("AssertionError")
  ELSE IF Len(Slice(pkt, 0, begin_length)) # begin_length
    THEN Raised("struct.error")
  ELSE LET record_type == pkt[1]
           legacy_record_version == pkt[2] * 256 + pkt[3]
           handshake_type == pkt[6]
           server_version_int == pkt[10] * 256 + pkt[11]
           session_id_length == pkt[44]
           cipher_suite_start == begin_length + session_id_length
           cipher_suite_id ==
             Slice(pkt, cipher_suite_start, cipher_suite_start + 2)
       IN  IF record_type # 22 THEN Raised("AssertionError")
           ELSE IF legacy_record_version \notin {769, 770, 771}
             THEN Raised("AssertionError")
           ELSE IF handshake_type # 2 THEN Raised("AssertionError")
           ELSE IF session_id_length \notin {0, 32}
             THEN Raised("AssertionError")
           ELSE IF ~IsProtocol(to_uint16(server_version_int))
             THEN Raised("ValueError")
           ELSE IF ~IsCipherSuite(cipher_suite_id)
             THEN Raised("ValueError")
           ELSE ReturnedServerHello(
                  ProtocolOf(to_uint16(server_version_int)),
                  CipherSuiteOf(cipher_suite_id))

\* The handshake record with the cipher suite read right after the fixed
\* prefix.
from_handshake_packet_FixedOffset(pkt) ==
  IF pkt[1] # 22 THEN Raised("AssertionError")
  ELSE IF Len(Slice(pkt, 0, begin_length)) # begin_length
    THEN Raised("struct.error")
  ELSE LET record_type == pkt[1]
           legacy_record_version == pkt[2] * 256 + pkt[3]
           handshake_type == pkt[6]
           server_version_int == pkt[10] * 256 + pkt[11]
           session_id_length == pkt[44]
           cipher_suite_start == begin_length
           cipher_suite_id ==
             Slice(pkt, cipher_suite_start, cipher_suite_start + 2)
       IN  IF record_type # 22 THEN Raised("AssertionError")
           ELSE IF legacy_record_version \notin {769, 770, 771}
             THEN Raised("AssertionError")
           ELSE IF handshake_type # 2 THEN Raised("AssertionError")
           ELSE IF server_version_int \notin {769, 770, 771}
             THEN Raised("AssertionError")
           ELSE IF session_id_length \notin {0, 32}
             THEN Raised("AssertionError")
           ELSE IF ~IsProtocol(to_uint16(server_version_int))
             THEN Raised("ValueError")
           ELSE IF ~IsCipherSuite(cipher_suite_id)
             THEN Raised("ValueError")
           ELSE ReturnedServerHello(
                  ProtocolOf(to_uint16(server_version_int)),
                  CipherSuiteOf(cipher_suite_id))

\* Lines 109-134: the handshake record.
from_handshake_packet(pkt) ==
  IF pkt[1] # 22 THEN Raised("AssertionError")
  ELSE IF Len(Slice(pkt, 0, begin_length)) # begin_length
    THEN Raised("struct.error")
  ELSE LET record_type == pkt[1]
           legacy_record_version == pkt[2] * 256 + pkt[3]
           handshake_type == pkt[6]
           server_version_int == pkt[10] * 256 + pkt[11]
           session_id_length == pkt[44]
           cipher_suite_start == begin_length + session_id_length
           cipher_suite_id ==
             Slice(pkt, cipher_suite_start, cipher_suite_start + 2)
       IN  IF record_type # 22 THEN Raised("AssertionError")
           ELSE IF legacy_record_version \notin {769, 770, 771}
             THEN Raised("AssertionError")
           ELSE IF handshake_type # 2 THEN Raised("AssertionError")
           ELSE IF server_version_int \notin {769, 770, 771}
             THEN Raised("AssertionError")
           ELSE IF session_id_length \notin {0, 32}
             THEN Raised("AssertionError")
           ELSE IF ~IsProtocol(to_uint16(server_version_int))
             THEN Raised("ValueError")
           ELSE IF ~IsCipherSuite(cipher_suite_id)
             THEN Raised("ValueError")
           ELSE ReturnedServerHello(
                  ProtocolOf(to_uint16(server_version_int)),
                  CipherSuiteOf(cipher_suite_id))

from_packet(pkt) ==
  IF Len(pkt) = 0 THEN Raised("ValueError")
  ELSE IF pkt[1] = 21 THEN from_alert_packet(pkt)
  ELSE from_handshake_packet(pkt)

(***************************************************************************)
(* ClientHello.make_packet.  A ClientHello is a record of server_name (the *)
(* code points of the string), allowed_protocols (a sequence of Protocol)  *)
(* and allowed_cipher_suites (a sequence of members of CipherSuite).  The  *)
(* outcome is the record as a byte sequence, or the exception raised.      *)
(***************************************************************************)
to_uint24(n) == <<(n \div 65536) % 256, (n \div 256) % 256, n % 256>>

\* int.to_bytes(k) raises OverflowError for a number of more than k bytes.
Overflows(n, k) == n >= 256 ^ k

\* b"".join(parts)
RECURSIVE Join(_)
Join(parts) ==
  IF Len(parts) = 0 THEN << >> ELSE Head(parts) \o Join(Tail(parts))

NoClientHello ==
  [server_name |-> << >>, allowed_protocols |-> << >>,
   allowed_cipher_suites |-> << >>]
NotMade == [status |-> "none", bytes |-> << >>]
MakeRaised(kind) == [status |-> kind, bytes |-> << >>]
MakeReturned(b) == [status |-> "bytes", bytes |-> b]

\* Line 146.
cipher_suites(self) ==
  Join([i \in 1..Len(self.allowed_cipher_suites) |->
          CipherSuiteValues[self.allowed_cipher_suites[i]]])

\* Lines 148-159.
curves ==
  <<0, 29, 0, 23, 0, 30, 0, 24, 0, 25, 1, 0, 1, 1, 1, 2, 1, 3, 1, 4>>

\* Lines 161-178.
signature_algorithms ==
  <<4, 3, 5, 3, 6, 3, 8, 7, 8, 8, 8, 9, 8, 10, 8, 11, 8, 4, 8, 5, 8, 6,
    4, 1, 5, 1, 6, 1, 2, 1, 2, 3>>

\* Line 182.
supported_versions(self) ==
  Join([i \in 1..Len(self.allowed_protocols) |->
          to_uint16(self.allowed_protocols[i])])

\* The extension emitted for every ClientHello.
supported_version_extension_Always(self) ==
  <<0, 43>> \o to_uint16(Len(supported_versions(self)) + 1)
            \o to_uint8(Len(supported_versions(self)))
            \o supported_versions(self)

\* Lines 180-190.
supported_version_extension(self) ==
  IF TLS_1_3 \in Range(self.allowed_protocols)
    THEN <<0, 43>> \o to_uint16(Len(supported_versions(self)) + 1)
                   \o to_uint8(Len(supported_versions(self)))
                   \o supported_versions(self)
    ELSE << >>

\* Lines 244-245: the key share extension with its fixed key.
key_share ==
  <<0, 51, 0, 38, 0, 36, 0, 29, 0, 32,
    53, 128, 114, 214, 54, 88, 128, 209, 174, 234, 50, 154, 223, 145, 33, 56,
    56, 81, 237, 33, 162, 142, 59, 117, 233, 101, 208, 210, 205, 22, 98, 84>>

\* Lines 192-246.
extensions(self) ==
  Join(<<
    <<0, 0>>,
    to_uint16(Len(self.server_name) + 5),
    to_uint16(Len(self.server_name) + 3),
    <<0>>,
    to_uint16(Len(self.server_name)),
    self.server_name,
    <<0, 5>>, <<0, 5>>, <<1>>, <<0, 0>>, <<0, 0>>,
    <<0, 11>>, <<0, 4>>, <<3>>, <<0>>, <<1>>, <<2>>,
    <<0, 10>>, to_uint16(Len(curves) + 2), to_uint16(Len(curves)), curves,
    <<0, 35>>, <<0, 0>>,
    <<0, 22>>, <<0, 0>>,
    <<0, 23>>, <<0, 0>>,
    <<0, 13>>, to_uint16(Len(signature_algorithms) + 2),
    to_uint16(Len(signature_algorithms)), signature_algorithms,
    <<255, 1>>, <<0, 1>>, <<0>>,
    <<0, 18>>, <<0, 0>>,
    supported_version_extension(self),
    <<0, 45, 0, 2, 1, 1>>,
    key_share
  >>)

\* The legacy version left at the highest allowed protocol.
client_hello_version_Unpinned(self) ==
  CHOOSE q \in Range(self.allowed_protocols) :
    \A r \in Range(self.allowed_protocols) : r <= q

\* Lines 248-250.
client_hello_version(self) ==
  LET highest == CHOOSE q \in Range(self.allowed_protocols) :
                   \A r \in Range(self.allowed_protocols) : r <= q
  IN  IF highest = TLS_1_3 THEN TLS_1_2 ELSE highest

\* Lines 252-255: "Random" and the legacy session id.
random == [i \in 1..32 |-> i - 1]
legacy_session_id == [i \in 1..32 |-> 223 + i]

\* Lines 251-262: the local client_hello.
client_hello_body(self) ==
  Join(<<
    to_uint16(client_hello_version(self)),
    random,
    <<32>>,
    legacy_session_id,
    to_uint16(Len(cipher_suites(self))),
    cipher_suites(self),
    <<1>>,
    <<0>>,
    to_uint16(Len(extensions(self))),
    extensions(self)
  >>)

\* The handshake length counting the four bytes of its own header.
handshake_CountsHeader(self) ==
  <<1>> \o to_uint24(Len(client_hello_body(self)) + 4)
        \o client_hello_body(self)

\* Lines 264-268.
handshake(self) ==
  <<1>> \o to_uint24(Len(client_hello_body(self))) \o client_hello_body(self)

\* Line 270.
record_version(self) ==
  IF client_hello_version(self) = SSLv3 THEN SSLv3 ELSE TLS_1_0

\* Lines 271-276.
record(self) ==
  <<22>> \o to_uint16(record_version(self))
         \o to_uint16(Len(handshake(self))) \o handshake(self)

\* Lines 142-278, with the exceptions in the order the code reaches them.
make_packet(self) ==
  IF /\ TLS_1_3 \in Range(self.allowed_protocols)
     /\ \/ Overflows(Len(supported_versions(self)) + 1, 2)
        \/ Overflows(Len(supported_versions(self)), 1)
    THEN MakeRaised("OverflowError")
  ELSE IF Overflows(Len(self.server_name) + 5, 2)
    THEN MakeRaised("OverflowError")
  ELSE IF \E i \in 1..Len(self.server_name) : self.server_name[i] > 127
    THEN MakeRaised("UnicodeEncodeError")
  ELSE IF Len(self.allowed_protocols) = 0
    THEN MakeRaised("ValueError")
  ELSE IF \/ Overflows(Len(cipher_suites(self)), 2)
          \/ Overflows(Len(extensions(self)), 2)
          \/ Overflows(Len(client_hello_body(self)), 3)
          \/ Overflows(Len(handshake(self)), 2)
    THEN MakeRaised("OverflowError")
  ELSE MakeReturned(record(self))

(***************************************************************************)
(* The byte strings the decoder is run on: what s.recv(4096) returned.     *)
(***************************************************************************)
Zeros(n) == [i \in 1..n |-> 0]

\* An alert record with the given version (low byte), level and description.
AlertRecord(vlo, level, desc) == <<21, 3, vlo, 0, 2, level, desc>>

\* A handshake record holding a ServerHello with a session id of sid bytes
\* and nothing after the cipher suite.
HandshakeRecord(first, vlo, htype, svlo, sid, suite) ==
  <<first, 3, vlo>> \o to_uint16(sid + 42) \o <<htype, 0, 0>>
    \o to_uint8(sid + 38) \o <<3, svlo>> \o Zeros(32) \o <<sid>>
    \o Zeros(sid) \o suite

AlertPackets ==
  {Slice(AlertRecord(vlo, level, desc) \o tl, 0, n) :
     vlo \in 0..5, level \in 0..3, desc \in {0, 40, 41, 70, 120},
     tl \in {<< >>, <<0>>}, n \in {1, 5, 6, 7, 8}}

HandshakePackets ==
  {Slice(HandshakeRecord(22, vlo, htype, svlo, sid, suite) \o tl, 0,
         begin_length + sid + cut) :
     vlo \in 0..4, htype \in {1, 2}, svlo \in 0..4, sid \in 0..MaxByte,
     suite \in {<<19, 1>>, <<204, 169>>, <<19, 9>>},
     tl \in {<< >>, <<0, 0, 7>>}, cut \in {1, 5}}

OtherPackets ==
  {<< >>, <<23, 3, 3, 0, 1, 0>>, <<22>>, Slice(HandshakeRecord(22, 3, 2, 3, 0, <<19, 1>>), 0, 43),
   HandshakeRecord(23, 3, 2, 3, 0, <<19, 1>>)}

Packets == AlertPackets \cup HandshakePackets \cup OtherPackets

(***************************************************************************)
(* Initial state: the arguments, the server, and the state of the call     *)
(* when the tasks have been handed to the pool.                            *)
(***************************************************************************)
Init ==
  /\ max_workers \in 1..MaxWorkers
  /\ protocol = TLS_1_3
  /\ supported \in SUBSET CipherSuite
  /\ deviations = 0
  /\ remaining = cipher_suite_parts(max_workers)
  /\ accepted = << >>
  /\ appended = [w \in Workers |-> {}]
  /\ pc = [w \in Workers |-> "RUNNING"]
  /\ client_hello = [w \in Workers |->
                       [allowed_protocols |-> << >>,
                        allowed_cipher_suites |-> << >>]]
  /\ server_hello = [w \in Workers |-> Hello(0)]
  /\ attempts = [w \in Workers |-> 0]
  /\ response = [w \in Workers |-> Fault("none")]
  /\ served = << >>
  /\ outqueue = << >>
  /\ number_left = max_workers
  /\ map_success = TRUE
  /\ map_value = NoError
  /\ outcome = "running"
  /\ result = << >>
  /\ error = NoError
  /\ packet = << >>
  /\ parsed = NotParsed
  /\ hello = NoClientHello
  /\ hello_packet = NotMade

(***************************************************************************)
(* enumerate_subset.  One pass of the while loop of a worker is one step:  *)
(* the ClientHello is built from the worker's list and sent, send ends     *)
(* with a ServerHello or an exception, and the pass goes on to the append  *)
(* and the remove, to the break, or to the exception leaving the task.     *)
(* The passes of the workers interleave in every order.  A task that ends  *)
(* hands its outcome to the pool in the same step.                         *)
(***************************************************************************)
args == <<max_workers, protocol, supported>>
pool == <<outqueue, number_left, map_success, map_value>>
call == <<outcome, result, error>>
decoder == <<packet, parsed>>
encoder == <<hello, hello_packet>>
loop == <<deviations, remaining, accepted, appended, pc, client_hello,
          server_hello, attempts, response, served>>

\* Line 310: the ClientHello of this attempt.
NewClientHello(w) ==
  [allowed_protocols |-> <<protocol>>,
   allowed_cipher_suites |-> remaining[w]]

\* Lines 310-312: the ClientHello is built and sent, send ends with r.
Send(w, r) ==
  /\ pc[w] = "RUNNING"
  /\ r \in ServerReplies(Range(remaining[w]))
  /\ deviations' = Deviated(Range(remaining[w]), r)
  /\ client_hello' = [client_hello EXCEPT ![w] = NewClientHello(w)]
  /\ attempts' = [attempts EXCEPT ![w] = @ + 1]
  /\ response' = [response EXCEPT ![w] = r]

\* The task of worker w ends: its outcome goes to the result queue and
\* from there to MapResult._set.
TaskEnds(item) ==
  /\ outqueue' = Append(outqueue, item)
  /\ number_left' = number_left - 1
  /\ map_success' = (map_success /\ item.success)
  /\ map_value' = MapSetValue(map_success, map_value, item)

\* send returned a ServerHello naming a suite of the list: lines 318-319
\* append it to accepted_cipher_suites and remove it from the list.
AttemptAccepted(w) ==
  /\ \E c \in Range(remaining[w]) :
       /\ Send(w, Hello(c))
       /\ server_hello' = [server_hello EXCEPT ![w] = Hello(c)]
       /\ served' = Append(served, c)
       /\ accepted' = Append(accepted, c)
       /\ appended' = [appended EXCEPT ![w] = @ \cup {c}]
       /\ remaining' = [remaining EXCEPT ![w] = ListRemove(@, c)]
  /\ UNCHANGED <<decoder, encoder, args, pc, pool, call>>

\* A removal that ignores a missing element: the loop goes on.
AttemptRemoveRaises_Continues(w) ==
  /\ \E c \in CipherSuite \ Range(remaining[w]) :
       /\ Send(w, Hello(c))
       /\ server_hello' = [server_hello EXCEPT ![w] = Hello(c)]
       /\ served' = Append(served, c)
       /\ accepted' = Append(accepted, c)
       /\ appended' = [appended EXCEPT ![w] = @ \cup {c}]
  /\ UNCHANGED <<decoder, encoder, args, remaining, pc, pool, call>>

\* A removal that ignores a missing element, after which the task returns.
AttemptRemoveRaises_Returns(w) ==
  /\ \E c \in CipherSuite \ Range(remaining[w]) :
       /\ Send(w, Hello(c))
       /\ server_hello' = [server_hello EXCEPT ![w] = Hello(c)]
       /\ served' = Append(served, c)
       /\ accepted' = Append(accepted, c)
       /\ appended' = [appended EXCEPT ![w] = @ \cup {c}]
  /\ pc' = [pc EXCEPT ![w] = "DONE"]
  /\ TaskEnds(TaskDone(w))
  /\ UNCHANGED <<decoder, encoder, args, remaining, call>>

\* send returned a ServerHello naming a suite that is not in the list: line
\* 318 appends it, list.remove raises ValueError at line 319.
AttemptRemoveRaises(w) ==
  /\ \E c \in CipherSuite \ Range(remaining[w]) :
       /\ Send(w, Hello(c))
       /\ server_hello' = [server_hello EXCEPT ![w] = Hello(c)]
       /\ served' = Append(served, c)
       /\ accepted' = Append(accepted, c)
       /\ appended' = [appended EXCEPT ![w] = @ \cup {c}]
  /\ pc' = [pc EXCEPT ![w] = "FATAL"]
  /\ TaskEnds(TaskFailed(w, OtherError(w, "ValueError")))
  /\ UNCHANGED <<decoder, encoder, args, remaining, call>>

\* handshake_failure raised like every other alert.
AttemptHandshakeFailure_Raises(w) ==
  /\ Send(w, Alert(handshake_failure))
  /\ pc' = [pc EXCEPT ![w] = "FATAL"]
  /\ TaskEnds(TaskFailed(w, ServerError(w, handshake_failure)))
  /\ UNCHANGED <<decoder, encoder, args, remaining, accepted, appended,
                 server_hello, served, call>>

\* send raised ServerError with alert handshake_failure: break, the task
\* returns.
AttemptHandshakeFailure(w) ==
  /\ Send(w, Alert(handshake_failure))
  /\ pc' = [pc EXCEPT ![w] = "DONE"]
  /\ TaskEnds(TaskDone(w))
  /\ UNCHANGED <<decoder, encoder, args, remaining, accepted, appended,
                 server_hello, served, call>>

\* Every alert taken as the end of the loop.
AttemptOtherAlert_Swallowed(w) ==
  /\ \E d \in ReplyAlerts \ {handshake_failure} :
       /\ Send(w, Alert(d))
       /\ TaskEnds(TaskDone(w))
  /\ pc' = [pc EXCEPT ![w] = "DONE"]
  /\ UNCHANGED <<decoder, encoder, args, remaining, accepted, appended,
                 server_hello, served, call>>

\* send raised ServerError with another alert: raise e.
AttemptOtherAlert(w) ==
  /\ \E d \in ReplyAlerts \ {handshake_failure} :
       /\ Send(w, Alert(d))
       /\ TaskEnds(TaskFailed(w, ServerError(w, d)))
  /\ pc' = [pc EXCEPT ![w] = "FATAL"]
  /\ UNCHANGED <<decoder, encoder, args, remaining, accepted, appended,
                 server_hello, served, call>>

\* Every exception of send taken as the end of the loop.
AttemptFault_Break(w) ==
  /\ \E k \in ReplyFaults :
       /\ Send(w, Fault(k))
       /\ TaskEnds(TaskDone(w))
  /\ pc' = [pc EXCEPT ![w] = "DONE"]
  /\ UNCHANGED <<decoder, encoder, args, remaining, accepted, appended,
                 server_hello, served, call>>

\* send raised an exception that is not a ServerError: not caught.
AttemptFault(w) ==
  /\ \E k \in ReplyFaults :
       /\ Send(w, Fault(k))
       /\ TaskEnds(TaskFailed(w, OtherError(w, k)))
  /\ pc' = [pc EXCEPT ![w] = "FATAL"]
  /\ UNCHANGED <<decoder, encoder, args, remaining, accepted, appended,
                 server_hello, served, call>>

(***************************************************************************)
(* The end of the call.                                                    *)
(***************************************************************************)
\* Line 324: pool.map re-raises the stored exception once every task has
\* ended.
RaiseWorkerError ==
  /\ outcome = "running"
  /\ number_left = 0
  /\ ~map_success
  /\ outcome' = "raised"
  /\ error' = map_value
  /\ UNCHANGED <<decoder, encoder, args, loop, pool, result>>

\* The call without the check of lines 326-327.
RaiseExhaustion_ReturnsEmpty ==
  /\ outcome = "running"
  /\ number_left = 0
  /\ map_success
  /\ accepted = << >>
  /\ outcome' = "returned"
  /\ result' = accepted
  /\ UNCHANGED <<decoder, encoder, args, loop, pool, error>>

\* Lines 326-327.
RaiseExhaustion ==
  /\ outcome = "running"
  /\ number_left = 0
  /\ map_success
  /\ accepted = << >>
  /\ outcome' = "raised"
  /\ error' = OtherError(0, "ValueError")
  /\ UNCHANGED <<decoder, encoder, args, loop, pool, result>>

\* Line 329.
ReturnAccepted ==
  /\ outcome = "running"
  /\ number_left = 0
  /\ map_success
  /\ accepted # << >>
  /\ outcome' = "returned"
  /\ result' = accepted
  /\ UNCHANGED <<decoder, encoder, args, loop, pool, error>>

Next ==
  \/ \E w \in Workers : AttemptAccepted(w)
  \/ \E w \in Workers : AttemptHandshakeFailure(w)
  \/ \E w \in Workers : AttemptOtherAlert(w)
  \/ \E w \in Workers : AttemptFault(w)
  \/ \E w \in Workers : AttemptRemoveRaises(w)
  \/ RaiseWorkerError
  \/ RaiseExhaustion
  \/ ReturnAccepted

Spec == Init /\ [][Next]_vars

\* Every attempt returns and the pool keeps running its threads: a step
\* that can be taken is eventually taken.
SpecFair == Spec /\ WF_vars(Next)

(***************************************************************************)
(* The decoder run on one received byte string.                            *)
(***************************************************************************)
InitParse ==
  /\ max_workers = 1
  /\ protocol = TLS_1_3
  /\ supported = {}
  /\ deviations = 0
  /\ remaining = cipher_suite_parts(1)
  /\ accepted = << >>
  /\ appended = [w \in 1..1 |-> {}]
  /\ pc = [w \in 1..1 |-> "RUNNING"]
  /\ client_hello = [w \in 1..1 |->
                       [allowed_protocols |-> << >>,
                        allowed_cipher_suites |-> << >>]]
  /\ server_hello = [w \in 1..1 |-> Hello(0)]
  /\ attempts = [w \in 1..1 |-> 0]
  /\ response = [w \in 1..1 |-> Fault("none")]
  /\ served = << >>
  /\ outqueue = << >>
  /\ number_left = 1
  /\ map_success = TRUE
  /\ map_value = NoError
  /\ outcome = "running"
  /\ result = << >>
  /\ error = NoError
  /\ packet \in Packets
  /\ parsed = NotParsed
  /\ hello = NoClientHello
  /\ hello_packet = NotMade

\* Line 288: ServerHello.from_packet(s.recv(4096))
FromPacket ==
  /\ parsed = NotParsed
  /\ parsed' = from_packet(packet)
  /\ UNCHANGED <<packet, encoder, args, loop, pool, call>>

NextParse == FromPacket

SpecParse == InitParse /\ [][NextParse]_vars

(***************************************************************************)
(* make_packet run on one ClientHello.                                     *)
(***************************************************************************)
\* The sequences over S of at most n entries.
SeqsUpTo(S, n) == UNION {[1..k -> S] : k \in 0..n}

\* Code points of server_name: "a" and a letter outside ASCII.
NameChars == {97, 233}

\* server_names near the limit of the uint16 length fields: one whose record
\* still fits, one whose handshake is too long, one whose own extension is.
LongServerNames ==
  {[i \in 1..n |-> 97] : n \in {256 ^ 2 - 536, 256 ^ 2 - 236, 256 ^ 2 - 5}}

ClientHellos ==
  {[server_name |-> s, allowed_protocols |-> p, allowed_cipher_suites |-> c] :
     s \in SeqsUpTo(NameChars, MaxNameLen),
     p \in SeqsUpTo(Protocol, MaxProtocols),
     c \in SeqsUpTo(CipherSuite, MaxOffered)}
  \cup
  {[server_name |-> s, allowed_protocols |-> <<TLS_1_3>>,
    allowed_cipher_suites |-> <<1>>] : s \in LongServerNames}

InitHello ==
  /\ max_workers = 1
  /\ protocol = TLS_1_3
  /\ supported = {}
  /\ deviations = 0
  /\ remaining = cipher_suite_parts(1)
  /\ accepted = << >>
  /\ appended = [w \in 1..1 |-> {}]
  /\ pc = [w \in 1..1 |-> "RUNNING"]
  /\ client_hello = [w \in 1..1 |->
                       [allowed_protocols |-> << >>,
                        allowed_cipher_suites |-> << >>]]
  /\ server_hello = [w \in 1..1 |-> Hello(0)]
  /\ attempts = [w \in 1..1 |-> 0]
  /\ response = [w \in 1..1 |-> Fault("none")]
  /\ served = << >>
  /\ outqueue = << >>
  /\ number_left = 1
  /\ map_success = TRUE
  /\ map_value = NoError
  /\ outcome = "running"
  /\ result = << >>
  /\ error = NoError
  /\ packet = << >>
  /\ parsed = NotParsed
  /\ hello \in ClientHellos
  /\ hello_packet = NotMade

\* Line 287: self.make_packet()
MakePacket ==
  /\ hello_packet = NotMade
  /\ hello_packet' = make_packet(hello)
  /\ UNCHANGED <<decoder, hello, args, loop, pool, call>>

NextHello == MakePacket

SpecHello == InitHello /\ [][NextHello]_vars

(***************************************************************************)
(* Properties of the enumeration driver (checked under Spec).              *)
(***************************************************************************)
\* The suites of the enumeration that are not among the elements of s, in
\* enumeration order.
UniverseWithout(s) == SelectSeq(CipherSuiteSeq, LAMBDA c : c \notin Range(s))

\* The first failed task of the result queue.
Failures == {i \in 1..Len(outqueue) : ~outqueue[i].success}
FirstFailure ==
  IF Failures = {} THEN TaskDone(0)
  ELSE outqueue[CHOOSE i \in Failures : \A j \in Failures : i <= j]

\* Worker w was answered by an alert other than handshake_failure.
OtherAlertSeen(w) ==
  response[w].type = "ServerError" /\ response[w].alert # handshake_failure

\* C1: with one worker and a server that answers from its supported set,
\* the k-th ClientHello offers the whole enumeration, in order, without the
\* k-1 suites the server named before, and the call returns the suites in
\* the order the server named them.
C1_SingleWorkerShrinkingOffers ==
  (max_workers = 1 /\ deviations = 0) =>
    /\ attempts[1] >= 1 =>
         client_hello[1].allowed_cipher_suites
           = UniverseWithout(SubSeq(served, 1, attempts[1] - 1))
    /\ outcome = "returned" => result = served

\* The worked example: the server supports suites 1 and 3, the third
\* ClientHello offered every suite but these two and the call returned
\* <<1, 3>>.
C1_Witness ==
  /\ max_workers = 1 /\ deviations = 0 /\ supported = {1, 3}
  /\ attempts[1] = 3
  /\ Range(client_hello[1].allowed_cipher_suites) = CipherSuite \ {1, 3}
  /\ 2 \in Range(client_hello[1].allowed_cipher_suites)
  /\ outcome = "returned" /\ result = <<1, 3>>

\* C2: for every number of workers and every interleaving, against a server
\* that answers from a non-empty supported set, a call that has ended has
\* returned a sequence holding every supported suite once and nothing else.
C2_ResultIsSupportedSet ==
  (deviations = 0 /\ supported # {} /\ outcome # "running") =>
    /\ outcome = "returned"
    /\ Range(result) = supported
    /\ Len(result) = Cardinality(supported)

\* Two workers, a server that supports suite 2 only, the call returned <<2>>.
C2_Witness ==
  /\ max_workers = 2 /\ deviations = 0 /\ supported = {2}
  /\ outcome = "returned" /\ result = <<2>>

\* C3 as stated: once an attempt of some worker was answered by an alert
\* other than handshake_failure, a call that has ended has raised that kind
\* of ServerError.
C3_ServerErrorAlwaysPropagated ==
  (outcome # "running" /\ \E w \in Workers : OtherAlertSeen(w)) =>
    /\ outcome = "raised"
    /\ error.kind = "ServerError"
    /\ error.alert # handshake_failure

\* C3 amended: once an attempt of some worker was answered by an alert other
\* than handshake_failure, a call that has ended has raised and returned
\* nothing; the exception is a ServerError of a worker answered that way
\* unless the task of another worker failed before.
C3_OtherAlertAbortsCall ==
  (outcome # "running" /\ \E w \in Workers : OtherAlertSeen(w)) =>
    /\ outcome = "raised"
    /\ result = << >>
    /\ \/ /\ error.kind = "ServerError"
          /\ error.alert # handshake_failure
          /\ OtherAlertSeen(error.worker)
       \/ /\ Failures # {}
          /\ FirstFailure.value = error
          /\ error.kind # "ServerError"

\* The call raised the ServerError of an alert although suites had been
\* accepted before.
C3_Witness ==
  /\ outcome = "raised"
  /\ error.kind = "ServerError" /\ error.alert = protocol_version
  /\ accepted # << >>
  /\ max_workers = 2

\* C4: the call never returns an empty sequence; when every worker ended on
\* handshake_failure and nothing was accepted, a call that has ended has
\* raised the ValueError of lines 326-327.
C4_NeverReturnsEmpty ==
  /\ outcome = "returned" => result # << >>
  /\ (outcome # "running" /\ accepted = << >>
        /\ \A w \in Workers : pc[w] = "DONE") =>
       (outcome = "raised" /\ error = OtherError(0, "ValueError"))

\* Two workers ended on handshake_failure with nothing accepted and the
\* call raised.
C4_Witness ==
  /\ max_workers = 2
  /\ \A w \in Workers : pc[w] = "DONE"
  /\ accepted = << >>
  /\ outcome = "raised" /\ error = OtherError(0, "ValueError")

C6_HandshakeFailureStep(w) ==
  (pc[w] = "RUNNING" /\ attempts'[w] = attempts[w] + 1
     /\ response'[w] = Alert(handshake_failure)) =>
    /\ pc'[w] = "DONE"
    /\ map_success' = map_success /\ map_value' = map_value
    /\ accepted' = accepted
    /\ remaining' = remaining
    /\ \A v \in Workers \ {w} :
         pc'[v] = pc[v] /\ attempts'[v] = attempts[v]

C6_Absorbing(w) ==
  pc[w] \in {"DONE", "FATAL"} =>
    (pc'[w] = pc[w] /\ attempts'[w] = attempts[w])

C6_HandshakeFailureEndsWorker ==
  [][\A w \in Workers : C6_HandshakeFailureStep(w) /\ C6_Absorbing(w)]_vars

\* A worker is DONE after handshake_failure while another one still runs
\* and suites have been accepted.
C6_Witness ==
  /\ \E w \in Workers :
       /\ pc[w] = "DONE" /\ response[w] = Alert(handshake_failure)
       /\ \E v \in Workers : pc[v] = "RUNNING" /\ attempts[v] > 0
  /\ accepted # << >>

\* C7 as stated: every ClientHello the driver has built has a non-empty
\* allowed_protocols and a non-empty allowed_cipher_suites.
C7_ClientHelloNonEmpty ==
  \A w \in Workers :
    attempts[w] >= 1 =>
      /\ client_hello[w].allowed_protocols # << >>
      /\ client_hello[w].allowed_cipher_suites # << >>

\* C8: before the first attempt the candidate lists are the partition of
\* the enumeration by position modulo max_workers: suite i is in the list
\* of worker ((i - 1) mod max_workers) + 1 and in no other, each list is in
\* enumeration order, and the lengths differ by at most one.
C8_InitialPartition ==
  (\A w \in Workers : attempts[w] = 0) =>
    /\ \A c \in CipherSuite : \A w \in Workers :
         c \in Range(remaining[w]) <=> (c - 1) % max_workers = w - 1
    /\ \A w \in Workers : \A i, j \in 1..Len(remaining[w]) :
         i < j => remaining[w][i] < remaining[w][j]
    /\ \A v, w \in Workers :
         /\ v # w => Range(remaining[v]) \cap Range(remaining[w]) = {}
         /\ Len(remaining[v]) - Len(remaining[w]) <= 1
    /\ UNION {Range(remaining[w]) : w \in Workers} = CipherSuite

\* Several workers before the first attempt, with lists of different
\* lengths.
C8_Witness ==
  /\ max_workers > 1
  /\ \A w \in Workers : attempts[w] = 0
  /\ \E v, w \in Workers : Len(remaining[v]) # Len(remaining[w])

(***************************************************************************)
(* Properties of the decoder (checked under SpecParse).                    *)
(***************************************************************************)
Decoded == parsed # NotParsed

\* C9: for a buffer whose first byte is 0x15 the decoder does not return;
\* when the buffer holds a known record version, alert level and alert
\* description, it raises the ServerError made of the Protocol of bytes 1-2,
\* the AlertLevel of byte 5 and the AlertDescription of byte 6.
C9_AlertNeverReturns ==
  (Decoded /\ Len(packet) >= 1 /\ packet[1] = 21) =>
    /\ parsed.status # "ServerHello"
    /\ (Len(packet) >= 7
          /\ (packet[2] * 256 + packet[3]) \in Protocol
          /\ packet[6] \in AlertLevel
          /\ packet[7] \in AlertDescription) =>
         parsed = RaisedServerError(packet[2] * 256 + packet[3],
                                    packet[6], packet[7])

\* A fatal protocol_version alert of a TLS 1.2 record was decoded.
C9_Witness ==
  /\ Decoded
  /\ packet = <<21, 3, 3, 0, 2, 2, 70>>
  /\ parsed = RaisedServerError(TLS_1_2, 2, protocol_version)

\* A handshake record long enough for the fixed prefix, with a supported
\* legacy_record_version and handshake_type 0x02.
C10_Record ==
  /\ Decoded
  /\ Len(packet) >= begin_length
  /\ packet[1] = 22
  /\ (packet[2] * 256 + packet[3]) \in {TLS_1_0, TLS_1_1, TLS_1_2}
  /\ packet[6] = 2

\* The rest of what the decoder requires of the record: a supported
\* server_version and, after the session id, the code of a CipherSuite.
C10_RestValid ==
  /\ (packet[10] * 256 + packet[11]) \in {TLS_1_0, TLS_1_1, TLS_1_2}
  /\ IsCipherSuite(Slice(packet, begin_length + packet[44],
                         begin_length + packet[44] + 2))

\* C10 as stated: such a record decodes to a ServerHello when
\* session_id_length is 0 or 32 and fails with an assertion error for every
\* other session_id_length.
C10_SessionIdLengthDecides ==
  C10_Record =>
    IF packet[44] \in {0, 32}
      THEN parsed.status = "ServerHello"
      ELSE parsed.status = "AssertionError"

\* C10 amended: such a record fails with an assertion error when
\* session_id_length is neither 0 nor 32; when it is 0 or 32 the record
\* decodes to a ServerHello if and only if server_version is supported and
\* the two bytes after the session id are the code of a CipherSuite.
C10_SessionIdLengthAndRest ==
  C10_Record =>
    IF packet[44] \in {0, 32}
      THEN (parsed.status = "ServerHello" <=> C10_RestValid)
      ELSE parsed.status = "AssertionError"

\* A TLS 1.0 record with a session id of 32 bytes was decoded to a
\* ServerHello.
C10_Witness ==
  /\ C10_Record
  /\ packet[2] * 256 + packet[3] = TLS_1_0
  /\ packet[44] = 32
  /\ parsed.status = "ServerHello"

(***************************************************************************)
(* Further properties of the enumeration driver (checked under Spec).      *)
(***************************************************************************)
\* The last send of worker w ended in something other than a ServerHello
\* or a handshake_failure alert.
FailedAttempt(w) ==
  /\ response[w].type \notin {"none", "ServerHello"}
  /\ response[w] # Alert(handshake_failure)

\* C11: an attempt that ends in anything other than a ServerHello or a
\* handshake_failure alert leaves its worker in FATAL with a failed task,
\* the worker makes no further attempt, and a call that has ended has raised
\* the exception of a failed task: it has neither returned nor raised the
\* ValueError of exhausted offers.
C11_FailedAttemptState ==
  \A w \in Workers :
    FailedAttempt(w) =>
      /\ pc[w] = "FATAL"
      /\ \E i \in Failures : outqueue[i].worker = w
      /\ outcome # "running" =>
           /\ outcome = "raised"
           /\ result = << >>
           /\ error.worker \in Workers
           /\ pc[error.worker] = "FATAL"

C11_NoRetry ==
  \A w \in Workers :
    FailedAttempt(w) =>
      (attempts'[w] = attempts[w] /\ response'[w] = response[w])

C12_OwnListOnly ==
  \A i \in Workers :
    attempts'[i] # attempts[i] =>
      \A j \in Workers \ {i} : remaining'[j] = remaining[j]

C12_Disjoint ==
  \A i, j \in Workers :
    i # j => Range(remaining[i]) \cap Range(remaining[j]) = {}

C12_ListsAreOwned ==
  [](C12_Disjoint) /\ [][C12_OwnListOnly]_vars

\* Two workers have each had a suite accepted and removed from their lists.
C12_Witness ==
  /\ max_workers = 2
  /\ \A w \in Workers :
       /\ attempts[w] >= 1
       /\ Len(remaining[w]) < Len(cipher_suite_part(max_workers, w - 1))
  /\ Len(accepted) >= 2

\* The initial subset of worker w (line 322).
InitialSubset(w) == cipher_suite_part(max_workers, w - 1)

\* C18: whatever the server answers, a worker whose initial subset has n
\* suites makes at most n + 1 attempts (every attempt that leaves it running
\* has removed one suite of its list), and every run of
\* enumerate_ciphers_suites eventually ends with a result or an error.
C18_AttemptBound ==
  \A w \in Workers :
    /\ attempts[w] <= Len(InitialSubset(w)) + 1
    /\ pc[w] = "RUNNING" =>
         attempts[w] + Len(remaining[w]) = Len(InitialSubset(w))

C18_AtMostNPlusOneAttempts ==
  [](C18_AttemptBound) /\ <>(outcome # "running")

\* A single worker with all NumSuites suites made NumSuites + 1 attempts
\* against a server that never sent an alert, and the call has ended.
C18_Witness ==
  /\ max_workers = 1
  /\ attempts[1] = NumSuites + 1
  /\ response[1].type = "ServerHello"
  /\ pc[1] = "FATAL"
  /\ outcome = "raised"

NoDuplicates(s) == \A i, j \in 1..Len(s) : s[i] = s[j] => i = j

\* The last reply to worker w is a ServerHello naming a suite that was not
\* in the ClientHello of that attempt.
NamedOutsideOffer(w) ==
  /\ response[w].type = "ServerHello"
  /\ response[w].cipher_suite
       \notin Range(client_hello[w].allowed_cipher_suites)

C19_State ==
  /\ \A w \in Workers : NamedOutsideOffer(w) =>
       /\ pc[w] = "FATAL"
       /\ \E i \in Failures : outqueue[i].worker = w
       /\ outcome # "returned"
  /\ outcome = "returned" =>
       /\ result = accepted
       /\ NoDuplicates(result)
       /\ \A w \in Workers : pc[w] = "DONE" /\ ~NamedOutsideOffer(w)
       /\ \A i \in 1..Len(result) :
            \E w \in Workers : result[i] \in appended[w]
                                 /\ result[i] \in Range(InitialSubset(w))

\* An attempt of worker w that ends with a ServerHello appends the named
\* suite, which was offered in this attempt unless the worker fails.
C19_Attempt ==
  \A w \in Workers :
    (attempts'[w] # attempts[w] /\ response'[w].type = "ServerHello") =>
      /\ accepted' = Append(accepted, response'[w].cipher_suite)
      /\ \/ response'[w].cipher_suite
              \in Range(client_hello'[w].allowed_cipher_suites)
         \/ pc'[w] = "FATAL"

\* C19: when enumerate_ciphers_suites returns normally, every suite of the
\* result was offered in the attempt that yielded it and the result holds no
\* suite twice, for any server behaviour; a ServerHello naming a suite
\* outside the worker's current list makes the run fail.
C19_ResultWasOffered == [](C19_State) /\ [][C19_Attempt]_vars

\* Two workers each had a suite accepted, the server departed from its set
\* of supported suites on the way, and the call returned.
C19_Witness ==
  /\ max_workers = 2
  /\ outcome = "returned"
  /\ deviations > 0
  /\ \A w \in Workers : appended[w] # {}

C20_LoopHead ==
  \A w \in Workers : pc[w] = "RUNNING" =>
    /\ Range(remaining[w]) \cap appended[w] = {}
    /\ Range(remaining[w]) \cup appended[w] = Range(InitialSubset(w))

C20_OnlyGrows ==
  /\ Len(accepted') >= Len(accepted)
  /\ SubSeq(accepted', 1, Len(accepted)) = accepted

\* C20: at every loop head of every worker, its remaining list and the set
\* of suites it has appended to the shared accepted list are disjoint and
\* their union is its initial subset; the shared accepted list only grows,
\* under every interleaving of the workers.
C20_RemainingAndAppendedPartition ==
  [](C20_LoopHead) /\ [][C20_OnlyGrows]_vars

\* Two workers are at their loop heads, each has appended, and three suites
\* are in the shared list.
C20_Witness ==
  /\ max_workers = 2
  /\ \A w \in Workers : pc[w] = "RUNNING" /\ appended[w] # {}
  /\ Len(accepted) = 3

(***************************************************************************)
(* Further properties of the decoder (checked under SpecParse).            *)
(***************************************************************************)
SupportedVersions == {TLS_1_0, TLS_1_1, TLS_1_2}

\* The fields of the fixed prefix of a buffer of at least 44 bytes.
RecordVersionField == packet[2] * 256 + packet[3]
ServerVersionField == packet[10] * 256 + packet[11]
SessionIdLengthField == packet[44]

\* The buffer passes every validation of the handshake record.
PassesValidation ==
  /\ Len(packet) >= begin_length
  /\ packet[1] = 22
  /\ RecordVersionField \in SupportedVersions
  /\ packet[6] = 2
  /\ ServerVersionField \in SupportedVersions
  /\ SessionIdLengthField \in {0, 32}

\* C13: the decoder returns a ServerHello only for a buffer with record
\* type 0x16, a legacy_record_version and a server_version among TLS 1.0,
\* 1.1 and 1.2, handshake type 0x02 and a session id length of 0 or 32; the
\* protocol of the ServerHello is the server_version field, hence never
\* SSLv3 and never TLS 1.3, whatever protocol was requested.
C13_ServerHelloOnlyIfValid ==
  (Decoded /\ parsed.status = "ServerHello") =>
    /\ PassesValidation
    /\ parsed.protocol = ServerVersionField
    /\ parsed.protocol \in SupportedVersions
    /\ parsed.protocol \notin {SSLv3, TLS_1_3}

\* TLS 1.3 was requested and the decoder returned a ServerHello of TLS 1.1.
C13_Witness ==
  /\ protocol = TLS_1_3
  /\ Decoded /\ parsed.status = "ServerHello"
  /\ parsed.protocol = TLS_1_1

\* C14: for a buffer that passes the validation, the decoder returns the
\* CipherSuite whose code is the two bytes at offsets 44 + session id length
\* and 45 + session id length, whatever follows them; when these two bytes
\* are not the code of a CipherSuite, or the buffer ends before them, it
\* raises ValueError.
C14_CipherSuiteAfterSessionId ==
  (Decoded /\ PassesValidation) =>
    LET start == begin_length + SessionIdLengthField
    IN  IF /\ Len(packet) >= start + 2
           /\ \E i \in 1..Len(CipherSuiteValues) :
                CipherSuiteValues[i] = <<packet[start + 1], packet[start + 2]>>
          THEN /\ parsed.status = "ServerHello"
               /\ CipherSuiteValues[parsed.cipher_suite]
                    = <<packet[start + 1], packet[start + 2]>>
          ELSE parsed.status = "ValueError"

\* A record with a session id of 32 bytes and bytes after the cipher suite
\* was decoded to the last member of CipherSuite.
C14_Witness ==
  /\ Decoded /\ PassesValidation
  /\ SessionIdLengthField = 32
  /\ Len(packet) > begin_length + 32 + 2
  /\ parsed.status = "ServerHello"
  /\ parsed.cipher_suite = Len(CipherSuiteValues)

(***************************************************************************)
(* Properties of the encoder (checked under SpecHello).                    *)
(***************************************************************************)
Made == hello_packet.status = "bytes"

\* The fields of a produced record, read back from its bytes; positions are
\* counted from 1.
Uint16At(b, i) == b[i] * 256 + b[i + 1]
Uint24At(b, i) == b[i] * 65536 + b[i + 1] * 256 + b[i + 2]
RecordVersionOf(b) == Uint16At(b, 2)
RecordLengthOf(b) == Uint16At(b, 4)
HandshakeLengthOf(b) == Uint24At(b, 7)
LegacyVersionOf(b) == Uint16At(b, 10)
CipherSuitesLengthOf(b) == Uint16At(b, 77)
ExtensionsLengthAt(b) == 81 + CipherSuitesLengthOf(b)
ExtensionsOf(b) == SubSeq(b, ExtensionsLengthAt(b) + 2, Len(b))

\* The ClientHello satisfies the invariants of a request: both lists are
\* non-empty and server_name is ASCII.
WellFormed ==
  /\ Len(hello.allowed_protocols) > 0
  /\ Len(hello.allowed_cipher_suites) > 0
  /\ \A i \in 1..Len(hello.server_name) : hello.server_name[i] <= 127

HighestAllowed ==
  CHOOSE q \in Range(hello.allowed_protocols) :
    \A r \in Range(hello.allowed_protocols) : r <= q

\* C15: for every non-empty allowed_protocols, the legacy version field of
\* the ClientHello body is the lower of TLS 1.2 and the highest allowed
\* protocol, and the record-layer version is SSLv3 when that legacy value is
\* SSLv3 and TLS 1.0 in every other case.
C15_LegacyVersionFields ==
  (Made /\ Len(hello.allowed_protocols) > 0) =>
    LET b == hello_packet.bytes
    IN  /\ LegacyVersionOf(b) = Min(TLS_1_2, HighestAllowed)
        /\ RecordVersionOf(b) =
             IF LegacyVersionOf(b) = SSLv3 THEN SSLv3 ELSE TLS_1_0

\* SSLv3 and TLS 1.3 were allowed: the legacy version is TLS 1.2 and the
\* record version TLS 1.0.
C15_Witness ==
  /\ Made
  /\ hello.allowed_protocols = <<SSLv3, TLS_1_3>>
  /\ LegacyVersionOf(hello_packet.bytes) = TLS_1_2
  /\ RecordVersionOf(hello_packet.bytes) = TLS_1_0

\* C16: the length fields of a produced record are mutually consistent:
\* byte 0 is 0x16, the record length is the total length minus 5, byte 5 is
\* 0x01, the handshake length is the total length minus 9, the cipher suite
\* list length is twice the number of requested suites and is followed by
\* their codes in request order, and the extensions length is the number of
\* bytes that follow it to the end of the record; a well-formed request of
\* moderate size always yields a record.
C16_LengthFieldsConsistent ==
  /\ (hello_packet # NotMade /\ WellFormed
        /\ hello.server_name \notin LongServerNames) => Made
  /\ Made =>
       LET b == hello_packet.bytes
           suites == hello.allowed_cipher_suites
       IN  /\ b[1] = 22
           /\ RecordLengthOf(b) = Len(b) - 5
           /\ b[6] = 1
           /\ HandshakeLengthOf(b) = Len(b) - 9
           /\ CipherSuitesLengthOf(b) = 2 * Len(suites)
           /\ \A i \in 1..Len(suites) :
                <<b[77 + 2 * i], b[78 + 2 * i]>> = CipherSuiteValues[suites[i]]
           /\ Uint16At(b, ExtensionsLengthAt(b))
                = Len(b) - (ExtensionsLengthAt(b) + 1)

\* A record was produced for a request of two suites, not in the order of
\* the enumeration, and two protocols.
C16_Witness ==
  /\ Made /\ WellFormed
  /\ hello.allowed_cipher_suites = <<3, 1>>
  /\ Len(hello.allowed_protocols) = 2
  /\ Len(hello.server_name) = 2

\* The types of the extension blocks {type, length, payload} of exts, in
\* order; -1 stands for bytes that are no whole block.
RECURSIVE ExtensionTypes(_)
ExtensionTypes(exts) ==
  IF Len(exts) = 0 THEN << >>
  ELSE IF Len(exts) < 4 \/ Len(exts) < 4 + Uint16At(exts, 3) THEN <<-1>>
  ELSE <<Uint16At(exts, 1)>>
         \o ExtensionTypes(SubSeq(exts, 5 + Uint16At(exts, 3), Len(exts)))

\* The payload of the first block of type t in exts.
RECURSIVE ExtensionData(_, _)
ExtensionData(exts, t) ==
  IF Len(exts) < 4 \/ Len(exts) < 4 + Uint16At(exts, 3) THEN << >>
  ELSE IF Uint16At(exts, 1) = t THEN SubSeq(exts, 5, 4 + Uint16At(exts, 3))
  ELSE ExtensionData(SubSeq(exts, 5 + Uint16At(exts, 3), Len(exts)), t)

\* server_name, status_request, ec_point_formats, supported_groups,
\* session_ticket, encrypt_then_mac, extended_master_secret,
\* signature_algorithms, renegotiation_info, signed_certificate_timestamp.
TypesBeforeSupportedVersions == <<0, 5, 11, 10, 35, 22, 23, 13, 65281, 18>>
\* psk_key_exchange_modes, key_share.
TypesAfterSupportedVersions == <<45, 51>>

\* The codes of allowed_protocols in request order.
AllowedProtocolCodes ==
  [i \in 1..(2 * Len(hello.allowed_protocols)) |->
     IF i % 2 = 1 THEN hello.allowed_protocols[(i + 1) \div 2] \div 256
                  ELSE hello.allowed_protocols[i \div 2] % 256]

\* C17: the supported_versions extension (type 0x002b) is emitted if and
\* only if TLS 1.3 is among allowed_protocols; it lists the codes of all
\* allowed_protocols in request order after a one-byte length of twice
\* their number, and stands after signed_certificate_timestamp and before
\* psk_key_exchange_modes and key_share; the other extensions come in the
\* same order for every request.
C17_SupportedVersionsExtension ==
  Made =>
    LET exts == ExtensionsOf(hello_packet.bytes)
        tls13 == TLS_1_3 \in Range(hello.allowed_protocols)
    IN  /\ ExtensionTypes(exts) =
             TypesBeforeSupportedVersions
               \o (IF tls13 THEN <<43>> ELSE << >>)
               \o TypesAfterSupportedVersions
        /\ tls13 => ExtensionData(exts, 43) =
                      <<2 * Len(hello.allowed_protocols)>>
                        \o AllowedProtocolCodes

\* TLS 1.3 was allowed first and TLS 1.0 second, and the extension is in
\* the record.
C17_Witness ==
  /\ Made
  /\ hello.allowed_protocols = <<TLS_1_3, TLS_1_0>>
  /\ ExtensionData(ExtensionsOf(hello_packet.bytes), 43)
       = <<4, 3, 4, 3, 1>>
====
